---------------------------- MODULE Spec2Model ----------------------------
(***************************************************************************)
(* KZT-Rate-Watcher: one run of parser_script.py.                          *)
(*                                                                         *)
(* The script asks the National Bank feed for one date, parses the XML     *)
(* into a metadata dict and a list of rate dicts, and overwrites           *)
(* data/latest_rates.json.  The model follows the script statement by      *)
(* statement: get_target_date, the HTTP request, ET.fromstring, the        *)
(* metadata dict, the "no information" check, the item loop, the two       *)
(* except clauses, the __main__ branch, and save_rates_to_json (guard,     *)
(* open, json.dump).                                                       *)
(*                                                                         *)
(* Text is a sequence of one-character strings.  The Cyrillic literals of  *)
(* the source are written in Latin transliteration (the marker             *)
(* "информации нет" is "informacii net").                                  *)
(***************************************************************************)
EXTENDS Integers, Sequences, FiniteSets, TLC

VARIABLES
    pc,               \* position of the run in the script
    now,              \* datetime.now() as get_target_date reads it
    target_date_str,  \* __main__: target_date_str
    fdate,            \* the date appended to NBK_RATES_URL in the request
    root,             \* fetch_and_parse_rates: root (top-level elements)
    item,             \* fetch_and_parse_rates: loop variable item
    seen,             \* number of items the loop has taken from findall
    exc,              \* exception in flight inside the second try block
    rates_list,       \* fetch_and_parse_rates: rates_list
    metadata,         \* metadata (local of the parser, then of __main__)
    current_rates,    \* __main__: current_rates
    log,              \* the lines printed by log_status, in order
    file,             \* content of OUTPUT_FILENAME
    uncaught          \* exception that left the __main__ block, if any

vars == <<pc, now, target_date_str, fdate, root, item, seen, exc, rates_list,
          metadata, current_rates, log, file, uncaught>>

---------------------------------------------------------------------------
(* Bounds of the model *)

MaxItems == 2      \* items the loop reads from one feed
MaxDefects == 1    \* fields of one item whose expression raises
YearSpan == 1      \* the clock ranges over FirstYear .. FirstYear + YearSpan
MaxElapsed == 3    \* half seconds between the two readings of the clock

FirstYear == 2024  \* first year of the clock's range

---------------------------------------------------------------------------
(* Python values *)

None == [none |-> TRUE]
Unset == [unset |-> TRUE]            \* a name not yet bound
Str(s) == [str |-> s]
PyInt(n) == [int |-> n]
Raise(kind) == [exc |-> kind]
IsExc(v) == "exc" \in DOMAIN v
IsStr(v) == "str" \in DOMAIN v

DigitSeq == <<"0", "1", "2", "3", "4", "5", "6", "7", "8", "9">>
IsDigit(c) == \E i \in 1..10 : DigitSeq[i] = c
DigitVal(c) == (CHOOSE i \in 1..10 : DigitSeq[i] = c) - 1
DigitChar(n) == DigitSeq[n + 1]

RECURSIVE DigitsValue(_)
DigitsValue(s) ==
    IF s = <<>> THEN 0
    ELSE 10 * DigitsValue(SubSeq(s, 1, Len(s) - 1)) + DigitVal(s[Len(s)])

Unsigned(s) == IF s # <<>> /\ s[1] \in {"-", "+"} THEN Tail(s) ELSE s
Sign(s) == IF s # <<>> /\ s[1] = "-" THEN -1 ELSE 1

(* A float is <<mantissa, decimals>> with no trailing zero decimal, so that
   equal numbers are equal values: 0.5 is <<5, 1>>, 0.0 is <<0, 0>>. *)
RECURSIVE NormFloat(_, _)
NormFloat(m, d) ==
    IF d > 0 /\ m % 10 = 0 THEN NormFloat(m \div 10, d - 1) ELSE <<m, d>>

Float(m, d) == [float |-> NormFloat(m, d)]

(* float(x) on text over digits, ".", sign and letters other than those of
   "e", "inf", "nan", "_": [sign] digits [. digits] with at least one digit. *)
FloatText(s) ==
    LET u == Unsigned(s)
        dots == {i \in 1..Len(u) : u[i] = "."}
        digs == SelectSeq(u, IsDigit)
    IN  /\ \A i \in 1..Len(u) : IsDigit(u[i]) \/ u[i] = "."
        /\ Cardinality(dots) <= 1
        /\ digs # <<>>

float(x) ==
    IF ~IsStr(x) THEN Raise("TypeError")
    ELSE IF ~FloatText(x.str) THEN Raise("ValueError")
    ELSE LET u == Unsigned(x.str)
             dots == {i \in 1..Len(u) : u[i] = "."}
             dec == IF dots = {} THEN 0 ELSE Len(u) - (CHOOSE i \in dots : TRUE)
         IN  Float(Sign(x.str) * DigitsValue(SelectSeq(u, IsDigit)), dec)

(* int(x) on the same alphabet: [sign] digits. *)
IntText(s) ==
    LET u == Unsigned(s)
    IN  u # <<>> /\ \A i \in 1..Len(u) : IsDigit(u[i])

int(x) ==
    IF ~IsStr(x) THEN Raise("TypeError")
    ELSE IF ~IntText(x.str) THEN Raise("ValueError")
    ELSE PyInt(Sign(x.str) * DigitsValue(Unsigned(x.str)))

PyBool(b) == [bool |-> b]
PyList(elems) == [list |-> elems]

(* truth value in a condition: of a str or None, of a list or None, and of
   the metadata dict (seven keys, never empty) or None *)
TruthyText(v) == IsStr(v) /\ v.str # <<>>
TruthyList(v) == "list" \in DOMAIN v /\ v.list # <<>>
TruthyDict(v) == v # None

(* sub in text, for two str *)
Contains(text, sub) ==
    \E i \in 0..(Len(text) - Len(sub)) : SubSeq(text, i + 1, i + Len(sub)) = sub

(* "информации нет" *)
Marker == <<"i", "n", "f", "o", "r", "m", "a", "c", "i", "i", " ", "n", "e", "t">>

(* "информации нет" in x *)
MarkerIn(x) ==
    IF ~IsStr(x) THEN Raise("TypeError") ELSE PyBool(Contains(x.str, Marker))

---------------------------------------------------------------------------
(* Dates *)

IsLeap(y) == (y % 4 = 0 /\ y % 100 # 0) \/ y % 400 = 0

DaysInMonth(y, m) ==
    IF m = 2 THEN (IF IsLeap(y) THEN 29 ELSE 28)
    ELSE IF m \in {4, 6, 9, 11} THEN 30 ELSE 31

(* A datetime is a record of year, month, day, hour, minute, second and
   microsecond. *)
DateTime(y, mo, d, h, mi, sec, us) ==
    [year |-> y, month |-> mo, day |-> d,
     hour |-> h, minute |-> mi, second |-> sec, microsecond |-> us]

(* the readings of the clock at the start of a run: every date of the years
   of the model, just after midnight and just before the next one *)
Dates ==
    {t \in [year : FirstYear..(FirstYear + YearSpan), month : 1..12, day : 1..31,
            hour : {0, 23}, minute : {0, 59}, second : {0, 59},
            microsecond : {0, 500000}] :
        /\ t.day <= DaysInMonth(t.year, t.month)
        /\ (t.hour = 0) = (t.minute = 0)
        /\ (t.hour = 0) = (t.second = 0)
        /\ (t.hour = 0) = (t.microsecond = 0)}

(* d + timedelta(days=1): the time of day is kept *)
AddOneDay(d) ==
    IF d.day < DaysInMonth(d.year, d.month) THEN [d EXCEPT !.day = d.day + 1]
    ELSE IF d.month < 12 THEN [d EXCEPT !.day = 1, !.month = d.month + 1]
    ELSE [d EXCEPT !.day = 1, !.month = 1, !.year = d.year + 1]

(* the clock a time of <<seconds, microseconds>> (less than a day) after t *)
Later(t, dt) ==
    LET us == t.microsecond + dt[2]
        secs == (t.hour * 60 + t.minute) * 60 + t.second + dt[1] + (us \div 1000000)
        day == IF secs >= 86400 THEN AddOneDay(t) ELSE t
        sod == secs % 86400
    IN  [day EXCEPT !.hour = sod \div 3600, !.minute = (sod \div 60) % 60,
                    !.second = sod % 60, !.microsecond = us % 1000000]

(* the time, as <<seconds, microseconds>>, between the clock reading of
   get_target_date and the one of the metadata dict: from none at all to
   MaxElapsed half seconds *)
Elapsed == {<<k \div 2, (k % 2) * 500000>> : k \in 0..MaxElapsed}

Pad2(n) == <<DigitChar((n \div 10) % 10), DigitChar(n % 10)>>
Pad4(n) == Pad2(n \div 100) \o Pad2(n % 100)

(* d.strftime("%d.%m.%Y") *)
strftime_dmY(d) == Pad2(d.day) \o <<".">> \o Pad2(d.month) \o <<".">> \o Pad4(d.year)

Pad6(n) == Pad2(n \div 10000) \o Pad4(n % 10000)

(* d.isoformat(): YYYY-MM-DDTHH:MM:SS, and .ffffff unless microsecond is 0 *)
isoformat(d) ==
    Pad4(d.year) \o <<"-">> \o Pad2(d.month) \o <<"-">> \o Pad2(d.day) \o <<"T">>
    \o Pad2(d.hour) \o <<":">> \o Pad2(d.minute) \o <<":">> \o Pad2(d.second)
    \o (IF d.microsecond = 0 THEN <<>> ELSE <<".">> \o Pad6(d.microsecond))

get_target_date_today(t) == Str(strftime_dmY(t))
get_target_date(t) == Str(strftime_dmY(AddOneDay(t)))

---------------------------------------------------------------------------
(* The feed: what root.find / item.find return.  find gives None for an
   absent element; the text of an empty element is None. *)

Elem(t) == [text |-> t]

TxtDate == <<"0", "1", ".", "0", "1", ".", "2", "0", "2", "5">>
TxtTitle == <<"R", "a", "t", "e", "s">>
TxtNoData == <<"(">> \o Marker \o <<")">>
TxtName == <<"D", "o", "l", "l", "a", "r">>
TxtCode == <<"U", "S", "D">>
TxtRate == <<"4", "5", "0", ".", "2", "5">>
TxtBad == <<"a", "b", "c">>
TxtOne == <<"1">>
TxtUp == <<"U", "P">>
TxtChange == <<"-", "0", ".", "5", "0">>
TxtNONE == <<"N", "O", "N", "E">>

Roots ==
    [date        : {None, Elem(Str(TxtDate))},
     title       : {None, Elem(Str(TxtTitle))},
     generator   : {None, Elem(Str(TxtTitle))},
     link        : {None, Elem(Str(TxtTitle))},
     description : {None, Elem(None), Elem(Str(TxtTitle)), Elem(Str(TxtNoData))},
     copyright   : {None, Elem(Str(TxtTitle))},
     info        : {None, Elem(None), Elem(Str(TxtTitle)), Elem(Str(TxtNoData))}]

(* the element a find on an item returns, by field: the ones the rate_data
   display accepts and the ones on which it raises *)
Accepted ==
    [fullname    |-> {Elem(Str(TxtName))},
     title       |-> {Elem(Str(TxtCode))},
     description |-> {Elem(Str(TxtRate))},
     quant       |-> {Elem(Str(TxtOne))},
     change      |-> {Elem(None), Elem(Str(TxtChange))}]
Rejected ==
    [fullname    |-> {None},
     title       |-> {None},
     description |-> {None, Elem(None), Elem(Str(TxtBad))},
     quant       |-> {None, Elem(Str(TxtBad))},
     change      |-> {None, Elem(Str(TxtBad))}]

(* the items with a rejected element in exactly the fields bad *)
ItemsWith(bad) ==
    LET Values(f) == IF f \in bad THEN Rejected[f] ELSE Accepted[f]
    IN  [fullname    : Values("fullname"),
         title       : Values("title"),
         description : Values("description"),
         quant       : Values("quant"),
         index       : {None, Elem(None), Elem(Str(TxtUp))},
         change      : Values("change")]

(* the items a feed holds: at most MaxDefects rejected elements each *)
Items ==
    UNION {ItemsWith(bad) : bad \in {b \in SUBSET DOMAIN Rejected :
                                        Cardinality(b) <= MaxDefects}}

(* e.text, for e the result of a find *)
text(e) == IF e = None THEN Raise("AttributeError") ELSE e.text

(* the first exception raised while the entries of a dict display are
   evaluated in order, or None *)
RECURSIVE FirstExc(_)
FirstExc(vals) ==
    IF vals = <<>> THEN None
    ELSE IF IsExc(Head(vals)) THEN Head(vals)
    ELSE FirstExc(Tail(vals))

(* the metadata dict *)
MetadataDict(r, date_str, t) ==
    LET date == IF r.date # None THEN r.date.text ELSE date_str
        title == text(r.title)
        generator == text(r.generator)
        link == text(r.link)
        description == text(r.description)
        copyright == text(r.copyright)
        e == FirstExc(<<title, generator, link, description, copyright>>)
    IN  IF e # None THEN e
        ELSE [date |-> date, title |-> title, generator |-> generator,
              link |-> link, description |-> description,
              copyright |-> copyright, retrieved_at |-> Str(isoformat(t))]

(* root.find('info') is not None and "информации нет" in root.find('info').text *)
NoInformation(r) ==
    IF r.info # None THEN MarkerIn(r.info.text) ELSE PyBool(FALSE)

(* float(item.find('change').text) if item.find('change').text else 0.0 *)
ChangeOf(it) ==
    LET c == text(it.change)
    IN  IF IsExc(c) THEN c
        ELSE IF TruthyText(c) THEN float(c) ELSE Float(0, 0)

(* item.find('index').text if item.find('index') is not None else "NONE" *)
IndexOf(it) ==
    IF it.index # None THEN it.index.text ELSE Str(TxtNONE)

(* the rate_data dict of one item, or the exception its display raises *)
RateData(it) ==
    LET fullname == text(it.fullname)
        code == text(it.title)
        d == text(it.description)
        rate == IF IsExc(d) THEN d ELSE float(d)
        q == text(it.quant)
        quant == IF IsExc(q) THEN q ELSE int(q)
        index == IndexOf(it)
        change == ChangeOf(it)
        e == FirstExc(<<fullname, code, rate, quant, index, change>>)
    IN  IF e # None THEN e
        ELSE [fullname |-> fullname, code |-> code, rate |-> rate,
              quant |-> quant, index |-> index, change |-> change]

(* log_status(success, message): one printed line *)
log_status(lines, success, message) ==
    Append(lines, [success |-> success, message |-> message])

(* The status lines, by the text of their message:
     "http_error: <e>"   Ошибка при HTTP-запросе ...: <e>
     "xml_parse_error"   Ошибка при парсинге XML ...
     "not_published"     Данные на ... еще не опубликованы.
     "parsed"            Успешно спарсено ... курсов на дату ...
     "unexpected_error"  Непредвиденная ошибка в процессе парсинга ...
     "not_saving"        Не сохраняем JSON, так как актуальные данные отсутствуют.
     "saved"             Данные (включая метаданные) сохранены в ...
     "save_error"        Ошибка при сохранении JSON-файла ...
     "update_skipped"    Обновление JSON-файла пропущено, так как данных ... нет.
     "no_metadata"       Не удалось получить метаданные. ... пропущено.      *)

---------------------------------------------------------------------------
(* The output file *)

Complete(data) == [state |-> "complete", data |-> data]
EmptyFile == [state |-> "empty"]                \* truncated by open(..., 'w')
Partial(data) == [state |-> "partial", data |-> data]  \* a proper prefix

(* final_data *)
FinalData(md, rates) == [metadata |-> md, rates |-> rates]

(* the file a previous successful run left behind *)
OldRoot ==
    [date |-> Elem(Str(strftime_dmY([year |-> FirstYear, month |-> 12, day |-> 31]))),
     title |-> Elem(Str(TxtTitle)), generator |-> Elem(Str(TxtTitle)),
     link |-> Elem(Str(TxtTitle)), description |-> Elem(Str(TxtTitle)),
     copyright |-> Elem(Str(TxtTitle)), info |-> None]
OldItem ==
    [fullname |-> Elem(Str(TxtName)), title |-> Elem(Str(TxtCode)),
     description |-> Elem(Str(TxtRate)), quant |-> Elem(Str(TxtOne)),
     index |-> Elem(Str(TxtUp)), change |-> Elem(Str(TxtChange))]
OldSnapshot ==
    Complete(FinalData(
        MetadataDict(OldRoot, Str(TxtDate), DateTime(FirstYear, 12, 30, 23, 59, 59, 950000)),
        PyList(<<RateData(OldItem)>>)))

---------------------------------------------------------------------------
(* The run *)

RunDate == DateTime(FirstYear, 12, 31, 23, 59, 59, 500000)

InitAt(clock) ==
    /\ pc = "start"
    /\ now \in clock
    /\ target_date_str = Unset
    /\ fdate = Unset
    /\ root = Unset
    /\ item = Unset
    /\ seen = 0
    /\ exc = None
    /\ rates_list = Unset
    /\ metadata = Unset
    /\ current_rates = Unset
    /\ log = <<>>
    /\ file = OldSnapshot
    /\ uncaught = None

Init == InitAt({RunDate})

(* target_date_str = get_target_date() *)
GetTargetDate ==
    /\ pc = "start"
    /\ target_date_str' = get_target_date(now)
    /\ pc' = "request"
    /\ UNCHANGED <<now, fdate, root, item, seen, exc, rates_list, metadata,
                   current_rates, log, file, uncaught>>

(* return from fetch_and_parse_rates: its locals go away *)
Return(md, rates) ==
    /\ metadata' = md
    /\ current_rates' = rates
    /\ root' = Unset
    /\ item' = Unset
    /\ seen' = 0
    /\ exc' = None
    /\ rates_list' = Unset
    /\ pc' = "main"

(* requests.get / raise_for_status raises a RequestException: the timeout of
   15 s passes, the connection fails, or the status is 4xx / 5xx *)
RequestExceptions ==
    {"http_error: Timeout", "http_error: ConnectionError", "http_error: HTTPError"}

RequestFails ==
    /\ pc = "request"
    /\ fdate' = target_date_str
    /\ \E e \in RequestExceptions : log' = log_status(log, FALSE, e)
    /\ Return(None, None)
    /\ UNCHANGED <<now, target_date_str, file, uncaught>>

RequestOk ==
    /\ pc = "request"
    /\ fdate' = target_date_str
    /\ pc' = "fromstring"
    /\ UNCHANGED <<now, target_date_str, root, item, seen, exc, rates_list,
                   metadata, current_rates, log, file, uncaught>>

(* ET.fromstring raises an exception that is no ET.ParseError (LookupError
   for an unknown encoding, ValueError for a multi-byte one): it goes to
   except Exception, with root and rates_list not bound *)
FromStringRaises ==
    /\ pc = "fromstring"
    /\ \E e \in {"LookupError", "ValueError"} : exc' = Raise(e)
    /\ pc' = "except"
    /\ UNCHANGED <<now, target_date_str, fdate, root, item, seen, rates_list,
                   metadata, current_rates, log, file, uncaught>>

(* ET.fromstring raises ET.ParseError: the body is not well-formed *)
FromStringFails ==
    /\ pc = "fromstring"
    /\ log' = log_status(log, FALSE, "xml_parse_error")
    /\ Return(None, None)
    /\ UNCHANGED <<now, target_date_str, fdate, file, uncaught>>

FromStringOk ==
    /\ pc = "fromstring"
    /\ \E r \in Roots : root' = r
    /\ rates_list' = PyList(<<>>)
    /\ pc' = "metadata"
    /\ UNCHANGED <<now, target_date_str, fdate, item, seen, exc, metadata,
                   current_rates, log, file, uncaught>>

CollectMetadata ==
    /\ pc = "metadata"
    /\ \E dt \in Elapsed :
          LET m == MetadataDict(root, target_date_str, Later(now, dt))
          IN  IF IsExc(m)
              THEN exc' = m /\ pc' = "except" /\ UNCHANGED metadata
              ELSE metadata' = m /\ pc' = "info" /\ UNCHANGED exc
    /\ UNCHANGED <<now, target_date_str, fdate, root, item, seen, rates_list,
                   current_rates, log, file, uncaught>>

CheckInfo ==
    /\ pc = "info"
    /\ LET s == NoInformation(root)
       IN  IF IsExc(s)
           THEN /\ exc' = s /\ pc' = "except"
                /\ UNCHANGED <<root, item, seen, rates_list, metadata,
                               current_rates, log>>
           ELSE IF s.bool
           THEN /\ log' = log_status(log, FALSE, "not_published")
                /\ Return(metadata, PyList(<<>>))
           ELSE /\ pc' = "items"
                /\ UNCHANGED <<root, item, seen, exc, rates_list, metadata,
                               current_rates, log>>
    /\ UNCHANGED <<now, target_date_str, fdate, file, uncaught>>

(* one iteration of the loop over root.findall('item') *)
LoopItem ==
    /\ pc = "items"
    /\ seen < MaxItems
    /\ \E it \in Items :
          /\ item' = it
          /\ LET r == RateData(it)
             IN  IF IsExc(r)
                 THEN exc' = r /\ pc' = "except" /\ UNCHANGED rates_list
                 ELSE rates_list' = PyList(Append(rates_list.list, r)) /\ pc' = "items"
                      /\ UNCHANGED exc
    /\ seen' = seen + 1
    /\ UNCHANGED <<now, target_date_str, fdate, root, metadata, current_rates,
                   log, file, uncaught>>

(* findall is exhausted *)
LoopEnd ==
    /\ pc = "items"
    /\ log' = log_status(log, TRUE, "parsed")
    /\ Return(metadata, rates_list)
    /\ UNCHANGED <<now, target_date_str, fdate, file, uncaught>>

(* except Exception: every exception of the second try block but ET.ParseError *)
HandleException ==
    /\ pc = "except"
    /\ log' = log_status(log, FALSE, "unexpected_error")
    /\ Return(None, None)
    /\ UNCHANGED <<now, target_date_str, fdate, file, uncaught>>

(* which arm of the if / elif / else of __main__ runs *)
MainBranchUnchecked(md, rates) == "save"
MainBranch(md, rates) ==
    IF TruthyDict(md) /\ rates # None THEN "save"
    ELSE IF TruthyDict(md) /\ ~TruthyList(rates) THEN "skip"
    ELSE "fail"

Main ==
    /\ pc = "main"
    /\ LET b == MainBranch(metadata, current_rates)
       IN  IF b = "save" THEN pc' = "save" /\ UNCHANGED log
           ELSE IF b = "skip"
           THEN pc' = "done" /\ log' = log_status(log, TRUE, "update_skipped")
           ELSE pc' = "done" /\ log' = log_status(log, FALSE, "no_metadata")
    /\ UNCHANGED <<now, target_date_str, fdate, root, item, seen, exc,
                   rates_list, metadata, current_rates, file, uncaught>>

(* not rates_data and "информации нет" in metadata.get('description', '') *)
NotSaving(md, rates_data) ==
    IF TruthyList(rates_data) THEN PyBool(FALSE)
    ELSE IF md = None THEN Raise("AttributeError")
    ELSE MarkerIn(md.description)

(* save_rates_to_json up to the try block; its guard is outside any try *)
SaveGuard ==
    /\ pc = "save"
    /\ LET g == NotSaving(metadata, current_rates)
       IN  IF IsExc(g)
           THEN uncaught' = g /\ pc' = "crashed" /\ UNCHANGED log
           ELSE IF g.bool
           THEN /\ log' = log_status(log, FALSE, "not_saving")
                /\ pc' = "done" /\ UNCHANGED uncaught
           ELSE pc' = "open" /\ UNCHANGED <<log, uncaught>>
    /\ UNCHANGED <<now, target_date_str, fdate, root, item, seen, exc,
                   rates_list, metadata, current_rates, file>>

(* open(filename, 'w') raises: the file is not touched *)
OpenFails ==
    /\ pc = "open"
    /\ log' = log_status(log, FALSE, "save_error")
    /\ pc' = "done"
    /\ UNCHANGED <<now, target_date_str, fdate, root, item, seen, exc,
                   rates_list, metadata, current_rates, file, uncaught>>

(* open(filename, 'w') truncates the file *)
OpenOk ==
    /\ pc = "open"
    /\ file' = EmptyFile
    /\ pc' = "dump"
    /\ UNCHANGED <<now, target_date_str, fdate, root, item, seen, exc,
                   rates_list, metadata, current_rates, log, uncaught>>

DumpOk ==
    /\ pc = "dump"
    /\ file' = Complete(FinalData(metadata, current_rates))
    /\ log' = log_status(log, TRUE, "saved")
    /\ pc' = "done"
    /\ UNCHANGED <<now, target_date_str, fdate, root, item, seen, exc,
                   rates_list, metadata, current_rates, uncaught>>

(* json.dump or the close raises after part of the text was written *)
DumpFails ==
    /\ pc = "dump"
    /\ file' \in {EmptyFile, Partial(FinalData(metadata, current_rates))}
    /\ log' = log_status(log, FALSE, "save_error")
    /\ pc' = "done"
    /\ UNCHANGED <<now, target_date_str, fdate, root, item, seen, exc,
                   rates_list, metadata, current_rates, uncaught>>

Next ==
    \/ GetTargetDate
    \/ RequestFails
    \/ RequestOk
    \/ FromStringFails
    \/ FromStringRaises
    \/ FromStringOk
    \/ CollectMetadata
    \/ CheckInfo
    \/ LoopItem
    \/ LoopEnd
    \/ HandleException
    \/ Main
    \/ SaveGuard
    \/ OpenFails
    \/ OpenOk
    \/ DumpOk
    \/ DumpFails

Spec == Init /\ [][Next]_vars

(* the date selection and the request alone, over every date of the clock *)
InitDate == InitAt(Dates)
NextDate == GetTargetDate \/ RequestFails \/ RequestOk
SpecDate == InitDate /\ [][NextDate]_vars

---------------------------------------------------------------------------
(* Properties *)

Present(e) == e # None
HasText(e) == e # None /\ IsStr(e.text)
Returned == pc \in {"main", "save", "open", "dump", "done", "crashed"}
Finished == pc \in {"done", "crashed"}
IsDict(v) == "retrieved_at" \in DOMAIN v
Last(s) == s[Len(s)]

(* the loop takes the next item from findall *)
TakesItem == pc = "items" /\ seen' = seen + 1

(* the rate text of an item is there and float() rejects it *)
RateUnparsable(it) == Present(it.description) /\ IsExc(float(it.description.text))
RateParsable(it) == Present(it.description) /\ ~IsExc(float(it.description.text))
QuantDefect(it) == ~Present(it.quant) \/ IsExc(int(it.quant.text))
ChangeDefect(it) ==
    ~Present(it.change) \/ (HasText(it.change) /\ IsExc(float(it.change.text)))

(* C1: when the parser returned an empty rate list, the output file is not
   opened and still holds the previous snapshot. *)
C1_EmptyListNeverWritten ==
    (Returned /\ current_rates = PyList(<<>>)) =>
        (pc # "dump" /\ file = OldSnapshot)

(* C2: an item whose rate text cannot be parsed is skipped: the loop goes on
   to the next item with the rate list as it was, so the list returned has
   one record for each other item. *)
C2_UnparsableRateSkipped ==
    [][(TakesItem /\ HasText(item'.fullname) /\ HasText(item'.title)
            /\ RateUnparsable(item'))
        => (pc' = "items" /\ rates_list' = rates_list)]_vars

(* the first status line of a run whose request or parse failed; a body that
   ET.fromstring rejects gives "xml_parse_error" (ET.ParseError) or
   "unexpected_error" (any other exception) *)
FailureMessages == RequestExceptions \cup {"xml_parse_error", "unexpected_error"}

(* C3: after a failed HTTP request or a body that ET.fromstring rejects the
   parser returns (None, None), save_rates_to_json is not entered and the
   file is the previous snapshot. *)
C3_FetchFailureIsTerminal ==
    /\ (pc = "fromstring" \/ (pc = "except" /\ root = Unset)) =>
          (log = <<>> /\ metadata = Unset /\ file = OldSnapshot)
    /\ (log # <<>> /\ log[1].message \in FailureMessages) =>
          /\ metadata = None
          /\ current_rates = None
          /\ pc \in {"main", "done"}
          /\ file = OldSnapshot
          /\ uncaught = None

C3_Witness ==
    /\ pc = "done"
    /\ log[1].message = "xml_parse_error"
    /\ fdate = target_date_str
    /\ file = OldSnapshot

(* C4: when the run is over the file is the previous snapshot or a complete
   new one, never a truncated or partly written one. *)
C4_FileOldOrComplete ==
    Finished => (file = OldSnapshot \/ file.state = "complete")

(* C5: a run that has ended normally has printed exactly one status line,
   whatever its outcome (HTTP failure, malformed XML, sentinel, successful
   write, skipped write, failed write). *)
C5_ExactlyOneStatusLine ==
    pc = "done" => Len(log) = 1

(* C6: no exception leaves the __main__ block. *)
C6_NoExceptionEscapes ==
    pc # "crashed" /\ uncaught = None

(* the date a DD.MM.YYYY text denotes, and the day number of a date *)
ParseDMY(s) ==
    [year |-> DigitsValue(SubSeq(s, 7, 10)),
     month |-> DigitsValue(SubSeq(s, 4, 5)),
     day |-> DigitsValue(SubSeq(s, 1, 2))]
IsDMY(s) ==
    /\ Len(s) = 10
    /\ s[3] = "." /\ s[6] = "."
    /\ \A i \in {1, 2, 4, 5, 7, 8, 9, 10} : IsDigit(s[i])
DaysBeforeMonth == <<0, 31, 59, 90, 120, 151, 181, 212, 243, 273, 304, 334>>
Ordinal(d) ==
    LET y == d.year - 1
    IN  365 * y + (y \div 4) - (y \div 100) + (y \div 400)
        + DaysBeforeMonth[d.month]
        + (IF d.month > 2 /\ IsLeap(d.year) THEN 1 ELSE 0)
        + d.day

(* C7: the target date is the calendar date of the run, as DD.MM.YYYY, and it
   is the date requested. *)
C7_TargetIsToday ==
    pc # "start" =>
        /\ target_date_str = Str(strftime_dmY(now))
        /\ fdate # Unset => fdate = target_date_str

(* C7, amended: the target date is the calendar date following the date of
   the run, as zero-padded DD.MM.YYYY, and it is the date requested. *)
C7_TargetIsTomorrow ==
    pc # "start" =>
        /\ IsStr(target_date_str)
        /\ IsDMY(target_date_str.str)
        /\ LET d == ParseDMY(target_date_str.str)
           IN  /\ d.month \in 1..12
               /\ d.day \in 1..DaysInMonth(d.year, d.month)
               /\ Ordinal(d) = Ordinal(now) + 1
        /\ fdate # Unset => fdate = target_date_str

C7_Witness ==
    /\ pc # "start"
    /\ fdate = target_date_str
    /\ now.month = 2 /\ now.day = 29
    /\ ParseDMY(target_date_str.str) = [year |-> now.year, month |-> 3, day |-> 1]

(* C8: an item with a parsable rate whose quant or change is absent or
   unparsable is appended to the rate list, with quant 1 and change 0.0 in
   place of the defective field. *)
C8_QuantChangeDefaults ==
    [][(TakesItem /\ HasText(item'.fullname) /\ HasText(item'.title)
            /\ RateParsable(item')
            /\ (QuantDefect(item') \/ ChangeDefect(item')))
        => /\ pc' = "items"
           /\ Len(rates_list'.list) = Len(rates_list.list) + 1
           /\ Last(rates_list'.list).quant =
                 (IF QuantDefect(item') THEN PyInt(1) ELSE int(item'.quant.text))
           /\ Last(rates_list'.list).change =
                 (IF ChangeDefect(item') THEN Float(0, 0) ELSE ChangeOf(item'))]_vars

(* C9: on a well-formed feed the metadata dict is always built: an absent
   title, generator, link, description or copyright gives a null field, and
   an absent date gives the requested date. *)
C9_AbsentMetadataTolerated ==
    [][pc = "metadata" /\ pc' # "metadata"
        => /\ pc' = "info"
           /\ IsDict(metadata')
           /\ ~Present(root.date) => metadata'.date = target_date_str
           /\ \A f \in {"title", "generator", "link", "description", "copyright"} :
                 metadata'[f] = (IF Present(root[f]) THEN root[f].text ELSE None)]_vars

(* C10: the index of every record is "NONE" when the item's index element is
   absent or empty and the element's text otherwise; it is never null. *)
C10_IndexNeverNull ==
    [][(TakesItem /\ pc' = "items")
        => Last(rates_list'.list).index =
              (IF HasText(item'.index) THEN item'.index.text ELSE Str(TxtNONE))]_vars

=============================================================================
